---- MODULE Spec2Model ----
(***************************************************************************)
(* Model of the Traveller development server (src/server.py).              *)
(*                                                                         *)
(* A string is a sequence of one-character strings, so that urlparse,      *)
(* rstrip, endswith and parse_qs are computed character by character.      *)
(* The text handed to the two response framers is a sequence of Unicode    *)
(* code points, so that len() (code points) and the UTF-8 encoding (bytes) *)
(* are different quantities.                                               *)
(*                                                                         *)
(* Three specifications share the variables:                               *)
(*   Spec        the listening loop: accept, do_GET, handle_error          *)
(*   SpecFramers json_response / string_response applied to a text         *)
(*   SpecQuery   get_query_params applied to a path                        *)
(***************************************************************************)
EXTENDS Integers, Sequences, FiniteSets, TLC

VARIABLES
    routes,             \* do_GET's route table: key |-> handler name
    files,              \* regular files of the served directory (names)
    HAS_PRETTY_ERRORS,  \* whether the import of pretty_errors succeeded
    pc,                 \* position of the server: listening, handling, error
    request,            \* the request target as received (None before any)
    path,               \* self.path of the handler, rewritten by do_GET
    routed,             \* key whose handler do_GET invoked (None if none)
    handlerCalls,       \* route handlers invoked for the current request
    delegateCalls,      \* SimpleHTTPRequestHandler.do_GET calls for it
    delegated,          \* value of self.path at the delegation (None if none)
    wfile,              \* complete responses written for the current request
    raised,             \* do_GET of the current request ended in an error
    errors,             \* errors passed to handle_error so far
    report,             \* strategy used by the last handle_error
    text,               \* input of the response framers
    framed,             \* <<what the framer sent>>, empty before the call
    qarg,               \* input of get_query_params
    qresult             \* <<result of get_query_params>>, empty before

vars == <<routes, files, HAS_PRETTY_ERRORS, pc, request, path, routed,
          handlerCalls, delegateCalls, delegated, wfile, raised, errors,
          report, text, framed, qarg, qresult>>

serverVars == <<routes, files, HAS_PRETTY_ERRORS, pc, request, path, routed,
                handlerCalls, delegateCalls, delegated, wfile, raised, errors,
                report>>
framerVars == <<text, framed>>
queryVars == <<qarg, qresult>>

None == <<"None">>

(***************************************************************************)
(* Bounds                                                                  *)
(***************************************************************************)
MaxPathLen == 3     \* request targets over PathAlphabet, exhaustively
MaxErrors == 1      \* errors raised during one run
MaxTextLen == 3     \* framer inputs over CodePoints, exhaustively
MaxQueryLen == 5    \* get_query_params inputs over QueryAlphabet

(***************************************************************************)
(* str methods                                                             *)
(***************************************************************************)
\* s.endswith(suffix)
EndsWith(s, suffix) ==
    /\ Len(s) >= Len(suffix)
    /\ SubSeq(s, Len(s) - Len(suffix) + 1, Len(s)) = suffix

\* s.startswith(prefix)
StartsWith(s, prefix) ==
    /\ Len(s) >= Len(prefix)
    /\ SubSeq(s, 1, Len(prefix)) = prefix

\* s.find(c) for a one-character c, 1-based, 0 when absent
Find(s, c) ==
    IF \E i \in 1..Len(s) : s[i] = c
    THEN CHOOSE i \in 1..Len(s) : s[i] = c /\ \A j \in 1..(i - 1) : s[j] # c
    ELSE 0

\* s.split(c, 1): <<head, tail>> or <<s>>
Split1(s, c) ==
    LET i == Find(s, c)
    IN  IF i = 0 THEN <<s>>
        ELSE <<SubSeq(s, 1, i - 1), SubSeq(s, i + 1, Len(s))>>

\* s.split(c)
RECURSIVE Split(_, _)
Split(s, c) ==
    LET i == Find(s, c)
    IN  IF i = 0 THEN <<s>>
        ELSE <<SubSeq(s, 1, i - 1)>> \o Split(SubSeq(s, i + 1, Len(s)), c)

\* s.rstrip(c): every trailing c is removed
RECURSIVE rstrip(_, _)
rstrip(s, c) ==
    IF Len(s) > 0 /\ s[Len(s)] = c THEN rstrip(SubSeq(s, 1, Len(s) - 1), c)
    ELSE s

\* s.replace(a, b) for one-character a and b
replace(s, a, b) == [i \in 1..Len(s) |-> IF s[i] = a THEN b ELSE s[i]]

(***************************************************************************)
(* urllib.parse                                                            *)
(***************************************************************************)
\* Index of the first of "/", "?", "#" at or after position start, else Len+1
NetlocEnd(url, start) ==
    LET hits == {i \in start..Len(url) : url[i] \in {"/", "?", "#"}}
    IN  IF hits = {} THEN Len(url) + 1
        ELSE CHOOSE i \in hits : \A j \in hits : i <= j

\* urlparse(url): the inputs carry no ":" and no ";", so scheme and params
\* are always empty; netloc, fragment and query are split off in that order.
urlparse(url) ==
    LET hasNetloc == StartsWith(url, <<"/", "/">>)
        delim == NetlocEnd(url, 3)
        netloc == IF hasNetloc THEN SubSeq(url, 3, delim - 1) ELSE <<>>
        u1 == IF hasNetloc THEN SubSeq(url, delim, Len(url)) ELSE url
        f == Split1(u1, "#")
        u2 == f[1]
        fragment == IF Len(f) = 2 THEN f[2] ELSE <<>>
        q == Split1(u2, "?")
        query == IF Len(q) = 2 THEN q[2] ELSE <<>>
    IN  [scheme |-> <<>>, netloc |-> netloc, path |-> q[1], params |-> <<>>,
         query |-> query, fragment |-> fragment]

HexDigit ==
    [c \in {"0", "1", "2", "3", "4", "5", "6", "7", "8", "9"} |->
        CASE c = "0" -> 0 [] c = "1" -> 1 [] c = "2" -> 2 [] c = "3" -> 3
          [] c = "4" -> 4 [] c = "5" -> 5 [] c = "6" -> 6 [] c = "7" -> 7
          [] c = "8" -> 8 [] c = "9" -> 9]

\* chr(n) for the one escape the modelled inputs carry, %26
Chr == [n \in {38} |-> "&"]

\* unquote(s): %XX becomes the character XX names, anything else is kept
RECURSIVE unquote(_)
unquote(s) ==
    IF s = <<>> THEN <<>>
    ELSE IF /\ s[1] = "%"
            /\ Len(s) >= 3
            /\ s[2] \in DOMAIN HexDigit
            /\ s[3] \in DOMAIN HexDigit
            /\ (16 * HexDigit[s[2]] + HexDigit[s[3]]) \in DOMAIN Chr
         THEN <<Chr[16 * HexDigit[s[2]] + HexDigit[s[3]]]>>
                  \o unquote(SubSeq(s, 4, Len(s)))
         ELSE <<s[1]>> \o unquote(Tail(s))

(***************************************************************************)
(* Configuration                                                           *)
(***************************************************************************)
EntryDocument == <<".", "/", "i", "n", "d", "e", "x", ".", "h", "t", "m", "l">>

allowed_extensions ==
    << <<"j", "s">>, <<"j", "p", "g">>, <<"p", "n", "g">>,
       <<"j", "s", "o", "n">> >>

IndexHtml == <<"i", "n", "d", "e", "x", ".", "h", "t", "m", "l">>
JsFile == <<"j", "s">>
AppJs == <<"a", "p", "p", ".", "j", "s">>

\* Served directories: the entry document and any of two other files.
\* The tree is flat: the root is the only directory.
FileSets == {{IndexHtml} \cup A : A \in SUBSET {JsFile, AppJs}}

Health == <<"/", "h", "e", "a", "l", "t", "h">>
SlashJs == <<"/", "j", "s">>

\* The route table of do_GET is a literal of the source and is empty there;
\* it is the extension point of the server, so the model also runs the
\* handler with one and with two registered routes.
NoRoutes == [k \in {} |-> "none"]
RouteTables ==
    { NoRoutes,
      [k \in {Health} |-> "health"],
      [k \in {Health, SlashJs} |-> IF k = Health THEN "health" ELSE "js"] }

(***************************************************************************)
(* Request targets                                                         *)
(***************************************************************************)
PathAlphabet == {"/", "?", ".", "j", "s"}

Strings(A, n) == UNION {[1..k -> A] : k \in 0..n}

SampleTargets ==
    { <<"/", "h", "e", "a", "l", "t", "h">>,
      <<"/", "h", "e", "a", "l", "t", "h", "/">>,
      <<"/", "h", "e", "a", "l", "t", "h", "?", "j", "s">>,
      <<"/", "p", "r", "o", "f", "i", "l", "e", "/", "1", "2", "3">>,
      <<"/", "a", "p", "p", ".", "j", "s">>,
      <<"/", "a", "p", "p", ".", "j", "s", "?", "v", "=", "2">>,
      <<"/", "n", "o", "j", "s">>,
      <<"/", "a", "p", "p", ".", "j", "s", "/">>,
      <<"/", "A", "P", "P", ".", "J", "S">>,
      <<"/", "d", "a", "t", "a", ".", "j", "s", "o", "n">>,
      <<"/", "l", "o", "g", "o", ".", "p", "n", "g">>,
      <<"/", "p", "i", "c", ".", "j", "p", "g">>,
      <<"/", "i", "n", "d", "e", "x", ".", "h", "t", "m", "l", "?", "j", "s">> }

\* Request targets are in origin form: they start with "/"
Targets ==
    {<<"/">> \o s : s \in Strings(PathAlphabet, MaxPathLen - 1)}
        \cup SampleTargets

(***************************************************************************)
(* The static-file delegate, SimpleHTTPRequestHandler.do_GET               *)
(***************************************************************************)
\* posixpath.normpath followed by translate_path's filter: "" and "." are
\* skipped, ".." removes the component before it, and a ".." that is left
\* at the front is ignored.
RECURSIVE NormWords(_, _)
NormWords(comps, new_comps) ==
    IF comps = <<>> THEN new_comps
    ELSE LET comp == Head(comps)
         IN  IF comp = <<>> \/ comp = <<".">> THEN NormWords(Tail(comps), new_comps)
             ELSE IF comp = <<".", ".">>
                  THEN NormWords(Tail(comps),
                           IF new_comps = <<>> THEN <<>>
                           ELSE SubSeq(new_comps, 1, Len(new_comps) - 1))
                  ELSE NormWords(Tail(comps), Append(new_comps, comp))

\* translate_path(path): the components below the served directory and
\* whether the path named a directory by a trailing slash
translate_path(p) ==
    LET p1 == Split1(p, "?")[1]
        p2 == Split1(p1, "#")[1]
        trailing_slash == EndsWith(p2, <<"/">>)
    IN  [words |-> NormWords(Split(unquote(p2), "/"), <<>>),
         trailing_slash |-> trailing_slash]

Response(writer, status, body) ==
    [writer |-> writer, status |-> status, body |-> body]

\* send_head and copyfile for a request without conditional headers: the
\* response of the delegate for self.path = p over the file set fs.
SimpleHTTPRequestHandler_do_GET(p, fs) ==
    LET t == translate_path(p)
    IN  IF t.words = <<>>
        THEN IF ~EndsWith(urlparse(p).path, <<"/">>)
             THEN Response("delegate", 301, <<>>)
             ELSE IF IndexHtml \in fs
                  THEN Response("delegate", 200, <<"file", IndexHtml>>)
                  ELSE Response("delegate", 200, <<"listing">>)
        ELSE IF t.trailing_slash THEN Response("delegate", 404, <<>>)
        ELSE IF Len(t.words) = 1 /\ t.words[1] \in fs
             THEN Response("delegate", 200, <<"file", t.words[1]>>)
             ELSE Response("delegate", 404, <<>>)

(***************************************************************************)
(* MyHandler.do_GET                                                        *)
(***************************************************************************)
\* Variant: the suffix check is made on the path component, without query
EndsWithAllowed_parsed(p) ==
    \E i \in 1..Len(allowed_extensions) :
        EndsWith(urlparse(p).path, allowed_extensions[i])

\* self.path.endswith(allowed_extensions)
EndsWithAllowed(p) ==
    \E i \in 1..Len(allowed_extensions) : EndsWith(p, allowed_extensions[i])

\* Variant: the lookup uses the path component with its trailing slashes
RouteKey_nostrip(p) == urlparse(p).path

\* path = parsed_path.path.rstrip("/")
RouteKey(p) == rstrip(urlparse(p).path, "/")

\* Variant: self.path is never rewritten
EffectivePath_norewrite(p) == p

\* Variant: self.path is rewritten for every request that is not routed
EffectivePath_always(p) == EntryDocument

\* The value of self.path after the extension check
EffectivePath(p) == IF ~EndsWithAllowed(p) THEN EntryDocument ELSE p

\* A route handler writes the one response of its route
HandlerResponse(name) == Response("handler", 200, <<"handler", name>>)

\* Variant: the route branch lacks its return and falls through to the
\* extension check and the delegation
do_GET_fallthrough(p, rts, fs, raises) ==
    LET called == RouteKey(p) \in DOMAIN rts
    IN  [path |-> EffectivePath(p),
         routed |-> IF called THEN RouteKey(p) ELSE None,
         handlerCalls |-> IF called THEN 1 ELSE 0,
         delegateCalls |-> 1, delegated |-> EffectivePath(p),
         raised |-> raises,
         wfile |-> IF raises THEN <<>>
                   ELSE (IF called THEN <<HandlerResponse(rts[RouteKey(p)])>>
                         ELSE <<>>)
                        \o <<SimpleHTTPRequestHandler_do_GET(EffectivePath(p), fs)>>]

\* do_GET for self.path = p: the route lookup and its early return, else the
\* extension check and the delegation.  raises: the writer that was invoked
\* raised before its response was complete.
do_GET(p, rts, fs, raises) ==
    IF RouteKey(p) \in DOMAIN rts
    THEN [path |-> p, routed |-> RouteKey(p), handlerCalls |-> 1,
          delegateCalls |-> 0, delegated |-> None, raised |-> raises,
          wfile |-> IF raises THEN <<>>
                    ELSE <<HandlerResponse(rts[RouteKey(p)])>>]
    ELSE [path |-> EffectivePath(p), routed |-> None, handlerCalls |-> 0,
          delegateCalls |-> 1, delegated |-> EffectivePath(p),
          raised |-> raises,
          wfile |-> IF raises THEN <<>>
                    ELSE <<SimpleHTTPRequestHandler_do_GET(EffectivePath(p), fs)>>]

\* Variant: the error is reported and raised again, out of serve_forever
handle_error_reraise(has_pretty) ==
    [report |-> IF has_pretty THEN "pretty_errors.excepthook"
                ELSE "HTTPServer.handle_error",
     pc |-> "stopped"]

\* TravellerServer.handle_error: report with the strategy chosen at import
\* time and return to the loop
handle_error(has_pretty) ==
    [report |-> IF has_pretty THEN "pretty_errors.excepthook"
                ELSE "HTTPServer.handle_error",
     pc |-> "listening"]

(***************************************************************************)
(* The listening loop                                                      *)
(***************************************************************************)
IdleFramers == text = <<>> /\ framed = <<>>
IdleQuery == qarg = <<>> /\ qresult = <<>>
IdleServer ==
    /\ routes = NoRoutes /\ files = {IndexHtml} /\ HAS_PRETTY_ERRORS = FALSE
    /\ pc = "off" /\ request = None /\ path = None /\ routed = None
    /\ handlerCalls = 0 /\ delegateCalls = 0 /\ delegated = None
    /\ wfile = <<>> /\ raised = FALSE /\ errors = 0 /\ report = "none"

\* TravellerServer(...) constructed and serve_forever entered
Init ==
    /\ routes \in RouteTables
    /\ files \in FileSets
    /\ HAS_PRETTY_ERRORS \in BOOLEAN
    /\ pc = "listening"
    /\ request = None /\ path = None /\ routed = None
    /\ handlerCalls = 0 /\ delegateCalls = 0 /\ delegated = None
    /\ wfile = <<>> /\ raised = FALSE /\ errors = 0 /\ report = "none"
    /\ IdleFramers /\ IdleQuery

\* serve_forever accepts a connection and builds a handler for its request
Accept(target) ==
    /\ pc = "listening"
    /\ request' = target
    /\ path' = target
    /\ routed' = None
    /\ handlerCalls' = 0 /\ delegateCalls' = 0 /\ delegated' = None
    /\ wfile' = <<>>
    /\ raised' = FALSE
    /\ pc' = "handling"
    /\ UNCHANGED <<routes, files, HAS_PRETTY_ERRORS, errors, report>>
    /\ UNCHANGED <<framerVars, queryVars>>

\* The handler runs do_GET to its end, or to the error it raises
DoGET(raises) ==
    /\ pc = "handling"
    /\ raises => errors < MaxErrors
    /\ LET r == do_GET(path, routes, files, raises)
       IN  /\ path' = r.path
           /\ routed' = r.routed
           /\ handlerCalls' = handlerCalls + r.handlerCalls
           /\ delegateCalls' = delegateCalls + r.delegateCalls
           /\ delegated' = r.delegated
           /\ wfile' = wfile \o r.wfile
           /\ raised' = r.raised
           /\ pc' = IF r.raised THEN "error" ELSE "listening"
    /\ UNCHANGED <<routes, files, HAS_PRETTY_ERRORS, request, errors, report>>
    /\ UNCHANGED <<framerVars, queryVars>>

\* The error reaches the server, which reports it and goes on listening
HandleError ==
    /\ pc = "error"
    /\ LET h == handle_error(HAS_PRETTY_ERRORS)
       IN  /\ report' = h.report
           /\ pc' = h.pc
    /\ errors' = errors + 1
    /\ UNCHANGED <<routes, files, HAS_PRETTY_ERRORS, request, path, routed,
                   handlerCalls, delegateCalls, delegated, wfile, raised>>
    /\ UNCHANGED <<framerVars, queryVars>>

AcceptAny == \E target \in Targets : Accept(target)
DoGETAny == \E raises \in BOOLEAN : DoGET(raises)

Next ==
    \/ AcceptAny
    \/ DoGETAny
    \/ HandleError

Spec == Init /\ [][Next]_vars

(***************************************************************************)
(* Response framers                                                        *)
(***************************************************************************)
\* Code points of "1", "a", e-acute, the euro sign and an emoji: one, one,
\* two, three and four bytes of UTF-8
CodePoints == {49, 97, 233, 8364, 128512}

Texts == Strings(CodePoints, MaxTextLen)

\* chr(cp).encode('utf_8')
Utf8(cp) ==
    IF cp < 128 THEN <<cp>>
    ELSE IF cp < 2048 THEN <<192 + (cp \div 64), 128 + (cp % 64)>>
    ELSE IF cp < 65536
         THEN <<224 + (cp \div 4096), 128 + ((cp \div 64) % 64),
                128 + (cp % 64)>>
         ELSE <<240 + (cp \div 262144), 128 + ((cp \div 4096) % 64),
                128 + ((cp \div 64) % 64), 128 + (cp % 64)>>

\* s.encode(encoding='utf_8')
RECURSIVE encode(_)
encode(s) == IF s = <<>> THEN <<>> ELSE Utf8(Head(s)) \o encode(Tail(s))

\* str(n) for a natural number: its decimal digits
RECURSIVE str(_)
str(n) == IF n < 10 THEN <<48 + n>> ELSE str(n \div 10) \o <<48 + (n % 10)>>

\* send_header encodes the header line as latin-1, strictly
Latin1(value) == \A i \in 1..Len(value) : value[i] < 256

NothingSent(by) ==
    [by |-> by, raised |-> TRUE, status |-> 0, ContentType |-> "",
     ContentLength |-> <<>>, body |-> <<>>]

\* json_response(json_str)
json_response(json_str) ==
    [by |-> "json_response", raised |-> FALSE, status |-> 200,
     ContentType |-> "application/json",
     ContentLength |-> str(Len(json_str)),
     body |-> encode(json_str)]

\* string_response(plain_str): the length header is str(plain_str), the
\* text itself; send_header raises on a text outside latin-1, before the
\* buffered status line and headers are flushed
string_response(plain_str) ==
    IF ~Latin1(plain_str) THEN NothingSent("string_response")
    ELSE [by |-> "string_response", raised |-> FALSE, status |-> 200,
          ContentType |-> "application/text",
          ContentLength |-> plain_str,
          body |-> encode(plain_str)]

InitFramers ==
    /\ text \in Texts
    /\ framed = <<>>
    /\ IdleServer /\ IdleQuery

JsonResponse ==
    /\ framed = <<>>
    /\ framed' = <<json_response(text)>>
    /\ UNCHANGED <<text, serverVars, queryVars>>

StringResponse ==
    /\ framed = <<>>
    /\ framed' = <<string_response(text)>>
    /\ UNCHANGED <<text, serverVars, queryVars>>

NextFramers ==
    \/ JsonResponse
    \/ StringResponse

SpecFramers == InitFramers /\ [][NextFramers]_vars

(***************************************************************************)
(* Query parameter extraction                                              *)
(***************************************************************************)
\* parse_qsl over the fields of qs.split("&"): an empty field and a field
\* without "=" are skipped, and so is a field with a blank value unless
\* keep_blank_values
RECURSIVE parse_qsl(_, _)
parse_qsl(fields, keep_blank_values) ==
    IF fields = <<>> THEN <<>>
    ELSE LET name_value == Head(fields)
             nv == Split1(name_value, "=")
             rest == parse_qsl(Tail(fields), keep_blank_values)
         IN  IF name_value = <<>> THEN rest
             ELSE IF Len(nv) # 2
                  THEN IF keep_blank_values
                       THEN << <<unquote(replace(nv[1], "+", " ")), <<>> >> >>
                                \o rest
                       ELSE rest
                  ELSE IF Len(nv[2]) > 0 \/ keep_blank_values
                       THEN << <<unquote(replace(nv[1], "+", " ")),
                                 unquote(replace(nv[2], "+", " "))>> >>
                                \o rest
                       ELSE rest

\* The values of name in pairs, in order
RECURSIVE ValuesOf(_, _)
ValuesOf(pairs, name) ==
    IF pairs = <<>> THEN <<>>
    ELSE (IF Head(pairs)[1] = name THEN <<Head(pairs)[2]>> ELSE <<>>)
             \o ValuesOf(Tail(pairs), name)

\* The dict parse_qs builds from the pairs
ToDict(pairs) ==
    [name \in {pairs[i][1] : i \in 1..Len(pairs)} |-> ValuesOf(pairs, name)]

\* Variant: parse_qs called with keep_blank_values=True
parse_qs_keep_blank(qs) == ToDict(parse_qsl(Split(qs, "&"), TRUE))

\* parse_qs(qs), keep_blank_values left at its default
parse_qs(qs) == ToDict(parse_qsl(Split(qs, "&"), FALSE))

\* get_query_params(path)
get_query_params(p) == parse_qs(urlparse(p).query)

QueryAlphabet == {"?", "&", "=", "q", "a"}

SamplePaths ==
    { <<"/", "s", "e", "a", "r", "c", "h", "?", "q", "=", "a", "&",
        "q", "=", "b", "&", "e", "m", "p", "t", "y", "=">>,
      <<"/", "n", "o", "-", "q", "u", "e", "r", "y">>,
      <<"/", "s", "?", "q", "=", "a", "%", "2", "6", "b">>,
      <<"/", "s", "?", "q", "=", "+">>,
      <<"/", "?", "q", "=", "a", "&", "a", "=", "q", "&", "q", "=", "q">>,
      <<"/", "?", "a", "=", "&", "q", "=", "a", "&", "a", "=", "q", "&",
        "q", "=">>,
      <<"/", "s", "#", "f", "?", "q", "=", "a">> }

QueryPaths ==
    {<<"/">> \o s : s \in Strings(QueryAlphabet, MaxQueryLen - 1)}
        \cup SamplePaths

InitQuery ==
    /\ qarg \in QueryPaths
    /\ qresult = <<>>
    /\ IdleServer /\ IdleFramers

GetQueryParams ==
    /\ qresult = <<>>
    /\ qresult' = <<get_query_params(qarg)>>
    /\ UNCHANGED <<qarg, serverVars, framerVars>>

NextQuery == GetQueryParams

SpecQuery == InitQuery /\ [][NextQuery]_vars

(***************************************************************************)
(* Properties of do_GET and of the listening loop (Spec)                   *)
(***************************************************************************)
\* do_GET has run for the current request
Handled == request # None /\ pc \in {"listening", "error"}

\* The path component of the request, with at most one trailing slash
\* removed, is a key of the route table
MatchesRoute ==
    \E k \in DOMAIN routes : urlparse(request).path \in {k, k \o <<"/">>}

\* No key of the route table is the path component without trailing slashes
NotRouted == RouteKey(request) \notin DOMAIN routes

\* The raw request target ends with one of the four bare strings
RawEndsBare ==
    \E suffix \in {<<"j", "s">>, <<"j", "p", "g">>, <<"p", "n", "g">>,
                   <<"j", "s", "o", "n">>} : EndsWith(request, suffix)

\* The request names no file and no directory of the served tree
FileMissing ==
    LET t == translate_path(request)
    IN  /\ t.words # <<>>
        /\ ~(Len(t.words) = 1 /\ t.words[1] \in files)

\* The request names a regular file of the served tree
FileExists ==
    LET t == translate_path(request)
    IN  /\ Len(t.words) = 1 /\ t.words[1] \in files
        /\ ~t.trailing_slash

EntryDocumentResponse == Response("delegate", 200, <<"file", IndexHtml>>)

ProfileLink == <<"/", "p", "r", "o", "f", "i", "l", "e", "/", "1", "2", "3">>
HealthSlash == <<"/", "h", "e", "a", "l", "t", "h", "/">>
AppJsTarget == <<"/", "a", "p", "p", ".", "j", "s">>
AppJsQuery == <<"/", "a", "p", "p", ".", "j", "s", "?", "v", "=", "2">>
AppJsSlash == <<"/", "a", "p", "p", ".", "j", "s", "/">>
AppJsUpper == <<"/", "A", "P", "P", ".", "J", "S">>
NoJsTarget == <<"/", "n", "o", "j", "s">>

\* C1: a request that is not routed and whose target does not end in an
\* allowed extension is delegated with self.path = ./index.html, whatever
\* the target was, and the complete response is the entry document with
\* status 200.
C1_FallbackServesEntryDocument ==
    (Handled /\ NotRouted /\ ~EndsWithAllowed(request)) =>
        /\ path = EntryDocument
        /\ delegated = EntryDocument
        /\ delegateCalls = 1
        /\ ~raised => wfile = <<EntryDocumentResponse>>

C1_Witness ==
    /\ Handled /\ NotRouted /\ request = ProfileLink
    /\ delegated = EntryDocument
    /\ wfile = <<EntryDocumentResponse>>

\* C2: a request whose path component, after trailing-slash stripping, is a
\* key of the route table has that key's handler invoked and nothing else:
\* self.path is not rewritten and the delegate is not called, also when the
\* target ends in an allowed extension.
C2_RoutedRequestRunsOnlyItsHandler ==
    (Handled /\ MatchesRoute) =>
        /\ routed \in DOMAIN routes
        /\ urlparse(request).path \in {routed, routed \o <<"/">>}
        /\ handlerCalls = 1
        /\ delegateCalls = 0
        /\ delegated = None
        /\ path = request
        /\ ~raised => wfile = <<HandlerResponse(routes[routed])>>

C2_Witness ==
    /\ Handled /\ request = HealthSlash
    /\ routed = Health
    /\ handlerCalls = 1 /\ delegateCalls = 0
    /\ wfile = <<HandlerResponse("health")>>

\* C3: a request that is not routed and whose target ends in an allowed
\* extension is delegated with self.path unchanged, and when it names no
\* file the complete response is the delegate's 404, not the entry document.
C3_StaticRequestKeepsItsPath ==
    (Handled /\ NotRouted /\ EndsWithAllowed(request)) =>
        /\ path = request
        /\ delegated = request
        /\ delegateCalls = 1
        /\ (FileMissing /\ ~raised) => wfile = <<Response("delegate", 404, <<>>)>>

C3_Witness ==
    /\ Handled /\ NotRouted /\ request = AppJsTarget
    /\ AppJs \notin files
    /\ delegated = request
    /\ wfile = <<Response("delegate", 404, <<>>)>>

\* C4: on every path through do_GET exactly one of the matched route
\* handler and the static-file delegate is invoked, and a do_GET that ends
\* without an error has written exactly one response, that of the writer it
\* invoked.
C4_ExactlyOneWriter ==
    Handled =>
        /\ handlerCalls + delegateCalls = 1
        /\ ~raised =>
              /\ Len(wfile) = 1
              /\ wfile[1].writer =
                    (IF handlerCalls = 1 THEN "handler" ELSE "delegate")

C4_Witness ==
    /\ Handled /\ ~raised
    /\ routes = NoRoutes
    /\ request = SlashJs
    /\ handlerCalls = 0 /\ delegateCalls = 1
    /\ Len(wfile) = 1 /\ wfile[1].writer = "delegate"

\* A later request of the kinds that are answered with status 200
FallbackOrExistingAsset ==
    NotRouted /\ (~EndsWithAllowed(request) \/ FileExists)

\* C5: an error raised while a request is handled is reported by
\* handle_error and the server goes back to listening; after an error the
\* loop still accepts requests, and a later fallback or existing-asset
\* request that ends without an error is answered with status 200.
C5_LoopSurvivesHandlerError ==
    /\ [][pc = "error" =>
             /\ pc' = "listening"
             /\ errors' = errors + 1
             /\ report' = (IF HAS_PRETTY_ERRORS
                           THEN "pretty_errors.excepthook"
                           ELSE "HTTPServer.handle_error")]_vars
    /\ []((errors > 0 /\ pc = "listening") => ENABLED AcceptAny)
    /\ []((errors > 0 /\ Handled /\ ~raised /\ FallbackOrExistingAsset) =>
             (Len(wfile) = 1 /\ wfile[1].status = 200))

C5_Witness ==
    /\ errors > 0 /\ Handled /\ ~raised /\ FallbackOrExistingAsset
    /\ request = AppJsTarget
    /\ wfile = <<Response("delegate", 200, <<"file", AppJs>>)>>

\* C9: a request that is not routed and whose path component, the target
\* without its query, ends in an allowed extension is delegated with its
\* target unchanged and not rewritten to the entry document.
C9_QueryStrippedBeforeSuffixCheck ==
    (Handled /\ NotRouted /\ EndsWithAllowed(urlparse(request).path)) =>
        /\ delegated = request
        /\ path # EntryDocument

\* C10: for a request that is not routed, self.path is kept if and only if
\* the raw target ends, case-sensitively, with js, jpg, png or json, and is
\* ./index.html otherwise; /nojs is kept, /app.js/ and /APP.JS are rewritten.
C10_RawSuffixDecides ==
    (Handled /\ NotRouted) =>
        /\ delegated = path
        /\ (path = request) <=> RawEndsBare
        /\ ~RawEndsBare => path = EntryDocument
        /\ request = NoJsTarget => path = NoJsTarget
        /\ request \in {AppJsSlash, AppJsUpper} => path = EntryDocument

C10_Witness ==
    /\ Handled /\ NotRouted /\ request = NoJsTarget
    /\ delegated = NoJsTarget
    /\ ~raised /\ wfile = <<Response("delegate", 404, <<>>)>>

(***************************************************************************)
(* Properties of the response framers (SpecFramers)                        *)
(***************************************************************************)
\* C6: the response of json_response has status 200, Content-Type
\* application/json, the UTF-8 encoding of the text as its body and a
\* Content-Length that is the decimal number of bytes of that body.
C6_JsonContentLengthIsByteLength ==
    \A i \in 1..Len(framed) :
        framed[i].by = "json_response" =>
            /\ framed[i].status = 200
            /\ framed[i].ContentType = "application/json"
            /\ framed[i].body = encode(text)
            /\ framed[i].ContentLength = str(Len(framed[i].body))

\* C7: the response of string_response has status 200, Content-Type
\* application/text, the UTF-8 encoding of the text as its body and a
\* Content-Length that is the decimal number of bytes of that body.
C7_StringContentLengthIsByteLength ==
    \A i \in 1..Len(framed) :
        framed[i].by = "string_response" =>
            /\ framed[i].status = 200
            /\ framed[i].ContentType = "application/text"
            /\ framed[i].body = encode(text)
            /\ framed[i].ContentLength = str(Len(framed[i].body))

(***************************************************************************)
(* Properties of get_query_params (SpecQuery)                              *)
(***************************************************************************)
SearchPath ==
    <<"/", "s", "e", "a", "r", "c", "h", "?", "q", "=", "a", "&",
      "q", "=", "b", "&", "e", "m", "p", "t", "y", "=">>
NoQueryPath == <<"/", "n", "o", "-", "q", "u", "e", "r", "y">>
ParamQ == <<"q">>
ParamEmpty == <<"e", "m", "p", "t", "y">>

\* The fields name=value of the query component of qarg, in order
QueryFields ==
    SelectSeq(Split(urlparse(qarg).query, "&"), LAMBDA f : Find(f, "=") > 0)

Decoded(x) == unquote(replace(x, "+", " "))
FieldName(f) == Decoded(SubSeq(f, 1, Find(f, "=") - 1))
FieldValue(f) == Decoded(SubSeq(f, Find(f, "=") + 1, Len(f)))

\* The values of the fields of the given name, in order of occurrence
Occurrences(fields, name) ==
    LET sel == SelectSeq(fields, LAMBDA f : FieldName(f) = name)
    IN  [i \in 1..Len(sel) |-> FieldValue(sel[i])]

NonBlankFields == SelectSeq(QueryFields, LAMBDA f : FieldValue(f) # <<>>)

\* C8 as stated: the result maps every parameter name of the query to the
\* sequence of its values in order of occurrence, a blank value included:
\* /search?q=a&q=b&empty= gives q |-> [a, b] and empty |-> [""], and
\* /no-query gives the empty mapping.
C8_Original ==
    \A i \in 1..Len(qresult) :
        /\ DOMAIN qresult[i] =
              {FieldName(QueryFields[j]) : j \in 1..Len(QueryFields)}
        /\ \A name \in DOMAIN qresult[i] :
              qresult[i][name] = Occurrences(QueryFields, name)
        /\ qarg = SearchPath =>
              qresult[i] = (ParamQ :> << <<"a">>, <<"b">> >>)
                               @@ (ParamEmpty :> << <<>> >>)
        /\ qarg = NoQueryPath => DOMAIN qresult[i] = {}

\* C8 as amended: the result maps every parameter name that has a value
\* which is not blank to the sequence of its values that are not blank, in
\* order of occurrence: /search?q=a&q=b&empty= gives q |-> [a, b] only,
\* a path without "?" gives the empty mapping.
C8_BlankValuesDropped ==
    \A i \in 1..Len(qresult) :
        /\ DOMAIN qresult[i] =
              {FieldName(NonBlankFields[j]) : j \in 1..Len(NonBlankFields)}
        /\ \A name \in DOMAIN qresult[i] :
              qresult[i][name] = Occurrences(NonBlankFields, name)
        /\ qarg = SearchPath =>
              qresult[i] = (ParamQ :> << <<"a">>, <<"b">> >>)
        /\ Find(qarg, "?") = 0 => DOMAIN qresult[i] = {}

C8_Witness ==
    /\ qarg = SearchPath
    /\ qresult = << (ParamQ :> << <<"a">>, <<"b">> >>) >>

====
